---- MODULE Spec2Model ----
(***************************************************************************)
(* Model of src/paper.py (class ArxivPaper): the typeset-source pipeline   *)
(* of ArxivPaper.tex (download, archive reading, main-document choice,     *)
(* content normalisation, include inlining), the region extraction of      *)
(* ArxivPaper.tldr, the cached_property memoisation of the derived         *)
(* properties and the class-level _CODE_URL_CACHE.                         *)
(*                                                                         *)
(* Text is modelled as a sequence of lexemes.  A lexeme is a record        *)
(* [t |-> kind, a |-> argument]; the kinds are the character sequences the *)
(* regular expressions of the source look for, every other run of          *)
(* characters is the lexeme "x".  A member name is a sequence of segments  *)
(* ("main", ".bbl", ".tex"), so that str.endswith, str.replace and string  *)
(* concatenation act on it as they do on the characters.                   *)
(***************************************************************************)
EXTENDS Integers, Sequences, FiniteSets, TLC

VARIABLES
    \* ---- ArxivPaper.tex, one computation (lines 131-221)
    pc,             \* position in the body of tex
    stack,          \* resources held by the ExitStack: subset of {"tmpdir","tar"}
    download,       \* outcome of self._paper.download_source
    bundle,         \* the members of the downloaded archive, in enumeration order
    tex_files,      \* line 158
    bbl_file,       \* line 163
    main_tex,       \* lines 164-179, 197; NoName models None
    idx,            \* position of the for loop of line 184
    file_contents,  \* line 183
    result,         \* what the access ended with
    \* ---- the content normaliser on its own (lines 188-195)
    raw, once, twice, normDone,
    \* ---- the region extraction of tldr (lines 225-244)
    flat, introduction, conclusion, tldrDone,
    \* ---- cached_property on one instance (lines 107, 131, 223, 332)
    inst,           \* the instance: what is cached, what ran, what was observed
    accesses,       \* number of property accesses made so far
    \* ---- _CODE_URL_CACHE and the threads computing code_url (lines 104-128)
    cache,          \* _CODE_URL_CACHE
    tpc,            \* position of each thread in code_url
    tid,            \* self.arxiv_id of each thread's instance
    tval,           \* what code_url returned in each thread
    first           \* the first value stored in the cache for each identifier

texVars    == <<pc, stack, download, bundle, tex_files, bbl_file, main_tex, idx,
                file_contents, result>>
normVars   == <<raw, once, twice, normDone>>
regionVars == <<flat, introduction, conclusion, tldrDone>>
memoVars   == <<inst, accesses>>
cacheVars  == <<cache, tpc, tid, tval, first>>
vars       == <<texVars, normVars, regionVars, memoVars, cacheVars>>

-----------------------------------------------------------------------------
(* Bounds of the model *)

\* longest text given to the normaliser
MaxLen == 3
\* longest flattened document given to the region extraction
MaxDoc == 3
\* most members of one archive
MaxMembers == 3
\* most accesses to the memoised properties of one instance
MaxAccesses == 3
\* threads computing code_url in parallel, each on an instance of its own
NThreads == 3

-----------------------------------------------------------------------------
(* Lexemes *)

L(k) == [t |-> k, a |-> <<>>]
Input(f) == [t |-> "input", a |-> f]
Include(f) == [t |-> "include", a |-> f]

RECURSIVE Flatten(_)
Flatten(ss) == IF ss = <<>> THEN <<>> ELSE Head(ss) \o Flatten(Tail(ss))

\* index of the first lexeme of kind k in s, 0 when there is none
RECURSIVE FirstOf(_, _, _)
FirstOf(s, k, i) ==
    IF i > Len(s) THEN 0
    ELSE IF s[i].t = k THEN i
    ELSE FirstOf(s, k, i + 1)

Has(s, k) == FirstOf(s, k, 1) # 0

Drop(s, n) == SubSeq(s, n + 1, Len(s))

-----------------------------------------------------------------------------
(* The content normaliser, lines 188-195 *)

\* re.sub(r'%.*\n', '\n', content): from a % to the end of its line
RECURSIVE StripLineComments(_)
StripLineComments(s) ==
    IF s = <<>> THEN <<>>
    ELSE IF Head(s).t = "pct" /\ Has(Tail(s), "nl")
         THEN <<L("nl")>> \o StripLineComments(Drop(s, FirstOf(s, "nl", 1)))
         ELSE <<Head(s)>> \o StripLineComments(Tail(s))

\* re.sub(open + '.*?' + close, '', content, flags=re.DOTALL)
RECURSIVE StripBlocks(_, _, _)
StripBlocks(s, open, close) ==
    IF s = <<>> THEN <<>>
    ELSE IF Head(s).t = open /\ Has(Tail(s), close)
         THEN StripBlocks(Drop(s, FirstOf(Tail(s), close, 1) + 1), open, close)
         ELSE <<Head(s)>> \o StripBlocks(Tail(s), open, close)

\* a faulty variant of the newline collapse: r'\n\n' in place of r'\n+'
RECURSIVE CollapsePairsOnly(_)
CollapsePairsOnly(s) ==
    IF Len(s) < 2 THEN s
    ELSE IF s[1].t = "nl" /\ s[2].t = "nl"
         THEN <<L("nl")>> \o CollapsePairsOnly(Drop(s, 2))
         ELSE <<Head(s)>> \o CollapsePairsOnly(Tail(s))

\* re.sub(r'\n+', '\n', content)
RECURSIVE CollapseNewlines(_)
CollapseNewlines(s) ==
    IF Len(s) < 2 THEN s
    ELSE IF s[1].t = "nl" /\ s[2].t = "nl"
         THEN CollapseNewlines(Tail(s))
         ELSE <<Head(s)>> \o CollapseNewlines(Tail(s))

\* re.sub(r'\\\\', '', content)
RemoveLineBreaks(s) == SelectSeq(s, LAMBDA e : e.t # "bs2")

\* length of the run of horizontal whitespace at the head of s
RECURSIVE SpaceRun(_)
SpaceRun(s) ==
    IF s = <<>> \/ Head(s).t # "sp" THEN 0 ELSE 1 + SpaceRun(Tail(s))

\* re.sub(r'[ \t\r\f]{3,}', ' ', content)
RECURSIVE CollapseSpaces(_)
CollapseSpaces(s) ==
    IF s = <<>> THEN <<>>
    ELSE IF SpaceRun(s) >= 3
         THEN <<L("sp")>> \o CollapseSpaces(Drop(s, SpaceRun(s)))
         ELSE IF SpaceRun(s) > 0
              THEN SubSeq(s, 1, SpaceRun(s)) \o CollapseSpaces(Drop(s, SpaceRun(s)))
              ELSE <<Head(s)>> \o CollapseSpaces(Tail(s))

\* lines 188-190: what the comment-stripping steps leave
Uncommented(s) ==
    StripBlocks(StripBlocks(StripLineComments(s), "bc", "ec"), "iff", "fi")

\* lines 188-195
Normalize(s) ==
    CollapseSpaces(RemoveLineBreaks(CollapseNewlines(Uncommented(s))))

NormAlphabet ==
    {L(k) : k \in {"x", "pct", "nl", "bs2", "sp", "bc", "ec", "iff", "fi"}}

RECURSIVE TextsUpTo(_, _)
TextsUpTo(A, n) ==
    IF n = 0 THEN {<<>>}
    ELSE LET shorter == TextsUpTo(A, n - 1)
         IN  shorter \cup {Append(s, e) : s \in shorter, e \in A}

\* the normaliser applied to a text and then to its own output
NormalizeTwice ==
    /\ ~normDone
    /\ once' = Normalize(raw)
    /\ twice' = Normalize(Normalize(raw))
    /\ normDone' = TRUE
    /\ UNCHANGED <<raw, texVars, regionVars, memoVars, cacheVars>>

NextNorm == NormalizeTwice

-----------------------------------------------------------------------------
(* The region extraction of tldr, lines 225-244 *)

\* re.sub(r'~?\\cite.?\{.*?\}', '', content)
RemoveCite(s) == SelectSeq(s, LAMBDA e : e.t # "cite")

\* lines 232-236: citations, figure blocks and table blocks removed
Cleaned(s) ==
    StripBlocks(StripBlocks(RemoveCite(s), "bfig", "efig"), "btab", "etab")

\* the alternatives \\section | \\end\{document\} | \\bibliography | \\appendix;
\* \section{Introduction} and \section{Conclusion} start with \section too
Terminators == {"sec", "secI", "secC", "ed", "bib", "app"}

\* index of the first terminator of s at or after i, 0 when there is none
RECURSIVE FirstTerminator(_, _)
FirstTerminator(s, i) ==
    IF i > Len(s) THEN 0
    ELSE IF s[i].t \in Terminators THEN i
    ELSE FirstTerminator(s, i + 1)

\* where '$' matches without re.MULTILINE: at the end of the string, and before
\* a newline that ends the string
EndAnchor(s) == IF s[Len(s)].t = "nl" THEN Len(s) - 1 ELSE Len(s)

\* the region as the specification words it: from the heading up to, and not
\* including, the first following terminator
ClaimedRegion(s, heading) ==
    LET h == FirstOf(s, heading, 1)
        e == IF h = 0 THEN 0 ELSE FirstTerminator(s, h + 1)
    IN  IF h = 0 THEN <<>>
        ELSE IF e # 0 THEN SubSeq(s, h, e - 1)
        ELSE SubSeq(s, h, EndAnchor(s))

\* re.search(heading + '.*?(terminators|$)', content, flags=re.DOTALL) and
\* match.group(0), lines 239-244; the empty text when there is no match
SectionRegion(s, heading) ==
    LET h == FirstOf(s, heading, 1)
        e == IF h = 0 THEN 0 ELSE FirstTerminator(s, h + 1)
    IN  IF h = 0 THEN <<>>
        ELSE IF e # 0 THEN SubSeq(s, h, e)
        ELSE SubSeq(s, h, EndAnchor(s))

RegionAlphabet ==
    {L(k) : k \in {"x", "nl", "secI", "secC", "sec", "ed", "bib", "app",
                   "cite", "bfig", "efig", "btab", "etab"}}

\* lines 225-244 with self.tex["all"] = flat
ExtractRegions ==
    /\ ~tldrDone
    /\ introduction' = SectionRegion(Cleaned(flat), "secI")
    /\ conclusion' = SectionRegion(Cleaned(flat), "secC")
    /\ tldrDone' = TRUE
    /\ UNCHANGED <<flat, texVars, normVars, memoVars, cacheVars>>

NextRegion == ExtractRegions

-----------------------------------------------------------------------------
(* ArxivPaper.tex, lines 131-221 *)

NoName == <<>>

EndsWith(n, ext) == Len(n) > 0 /\ n[Len(n)] = ext

\* bbl_file[0].replace('.bbl', ''): str.replace removes every occurrence
RemoveBbl(n) == SelectSeq(n, LAMBDA seg : seg # ".bbl")

\* [f for f in tar.getnames() if f.endswith(ext)]
NamesEnding(b, ext) ==
    LET names == [i \in 1..Len(b) |-> b[i].name]
    IN  SelectSeq(names, LAMBDA n : EndsWith(n, ext))

InSeq(x, s) == \E i \in 1..Len(s) : s[i] = x

\* the match statement of lines 164-179
MainFromNames(tex, bbl) ==
    IF Len(bbl) = 0
    THEN IF Len(tex) > 1 THEN NoName ELSE tex[1]
    ELSE IF Len(bbl) = 1
         THEN LET cand == Append(RemoveBbl(bbl[1]), ".tex")
              IN  IF InSeq(cand, tex) THEN cand ELSE NoName
         ELSE NoName

\* tar.extractfile(t): the member named t
Member(b, t) == b[CHOOSE i \in 1..Len(b) : b[i].name = t]

\* file_contents.get(file_name, '')
Get(fc, n) == IF n \in DOMAIN fc THEN fc[n] ELSE <<>>

\* file_contents[t] = content
Put(fc, t, c) == [n \in (DOMAIN fc) \cup {t} |-> IF n = t THEN c ELSE fc[n]]

\* lines 206-209
FileName(f) == IF EndsWith(f, ".tex") THEN f ELSE Append(f, ".tex")

\* re.findall of lines 203-204: the arguments of the \input directives, then
\* those of the \include directives
IncludeFiles(src) ==
    LET args(k) == LET hits == SelectSeq(src, LAMBDA e : e.t = k)
                   IN  [i \in 1..Len(hits) |-> hits[i].a]
    IN  args("input") \o args("include")

\* main_source.replace(f'\\input{{{f}}}', repl): every occurrence, left to right
Replace(src, f, repl) ==
    Flatten([i \in 1..Len(src) |-> IF src[i] = Input(f) THEN repl ELSE <<src[i]>>])

\* the for loop of lines 205-213
RECURSIVE Inline(_, _, _)
Inline(src, fs, fc) ==
    IF fs = <<>> THEN src
    ELSE Inline(Replace(src, Head(fs), Get(fc, FileName(Head(fs)))), Tail(fs), fc)

\* a faulty variant: only the archive is closed, the directory is kept
ExitStackLeak(held) == held \ {"tar"}

\* the with statement of line 133 left: the ExitStack closes what it holds

ExitStackClose(held) == {}

Pending == [kind |-> "pending", files |-> [x \in {} |-> ""], all |-> <<>>, exc |-> ""]
ReturnNone == [kind |-> "none", files |-> [x \in {} |-> ""], all |-> <<>>, exc |-> ""]
ReturnMap(fc, a) == [kind |-> "map", files |-> fc, all |-> a, exc |-> ""]
Raise(e) == [kind |-> "raise", files |-> [x \in {} |-> ""], all |-> <<>>, exc |-> e]

\* the archives the model draws from: member names and contents
MainTex == <<"main", ".tex">>
SecTex == <<"sec", ".tex">>
AppTex == <<"app", ".tex">>
MainBblTex == <<"main", ".bbl", ".tex">>
MainBbl == <<"main", ".bbl">>
MainBblBbl == <<"main", ".bbl", ".bbl">>

File(n, c) == [name |-> n, kind |-> "file", content |-> c]
Dir(n) == [name |-> n, kind |-> "dir", content |-> <<>>]

MemberPool ==
    { File(MainTex, <<L("bd"), L("x")>>),
      File(MainTex, <<L("bd"), Input(<<"sec">>), Input(<<"app">>)>>),
      File(MainTex, <<L("bd"), Include(<<"sec", ".tex">>)>>),
      File(MainTex, <<L("pct"), L("bd"), L("nl"), L("x")>>),
      File(SecTex, <<L("x"), Input(<<"app">>)>>),
      File(SecTex, <<L("bd"), L("bs2"), L("x")>>),
      Dir(SecTex),
      File(AppTex, <<L("x")>>),
      File(MainBblTex, <<L("x")>>),
      File(MainBblTex, <<L("bd")>>),
      File(MainBbl, <<>>),
      File(MainBblBbl, <<>>) }

DistinctNames(b) == \A i, j \in 1..Len(b) : b[i].name = b[j].name => i = j

RECURSIVE BundlesUpTo(_)
BundlesUpTo(n) ==
    IF n = 0 THEN {<<>>}
    ELSE LET shorter == BundlesUpTo(n - 1)
         IN  shorter \cup
             {Append(b, m) : b \in {c \in shorter : Len(c) = n - 1}, m \in MemberPool}

Bundles == {b \in BundlesUpTo(MaxMembers) : DistinctNames(b)}

DownloadOutcomes == {"ok", "http404", "httpOther", "error"}

\* a return or a raise inside the with block: the result is set and the block is left
Leave(r) == result' = r /\ pc' = "exit"

\* lines 133-134
EnterTmpDir ==
    /\ pc = "enter"
    /\ stack' = stack \cup {"tmpdir"}
    /\ pc' = "download"
    /\ UNCHANGED <<download, bundle, tex_files, bbl_file, main_tex, idx,
                   file_contents, result>>
    /\ UNCHANGED <<normVars, regionVars, memoVars, cacheVars>>

\* lines 136-151
DownloadSource ==
    /\ pc = "download"
    /\ \E o \in DownloadOutcomes :
        /\ download' = o
        /\ IF o = "ok" THEN pc' = "open" /\ UNCHANGED result
           ELSE IF o = "httpOther" THEN Leave(Raise("HTTPError"))
           ELSE Leave(ReturnNone)
    /\ UNCHANGED <<stack, bundle, tex_files, bbl_file, main_tex, idx, file_contents>>
    /\ UNCHANGED <<normVars, regionVars, memoVars, cacheVars>>

\* lines 152-156: the file is an archive holding the members b, or is no archive
OpenTar ==
    /\ pc = "open"
    /\ \/ /\ Leave(ReturnNone)
          /\ UNCHANGED <<stack, bundle>>
       \/ \E b \in Bundles :
            /\ bundle' = b
            /\ stack' = stack \cup {"tar"}
            /\ pc' = "names"
            /\ UNCHANGED result
    /\ UNCHANGED <<download, tex_files, bbl_file, main_tex, idx, file_contents>>
    /\ UNCHANGED <<normVars, regionVars, memoVars, cacheVars>>

\* lines 158-180
ChooseByName ==
    /\ pc = "names"
    /\ tex_files' = NamesEnding(bundle, ".tex")
    /\ IF Len(NamesEnding(bundle, ".tex")) = 0
       THEN /\ Leave(ReturnNone)
            /\ UNCHANGED <<bbl_file, main_tex>>
       ELSE /\ bbl_file' = NamesEnding(bundle, ".bbl")
            /\ main_tex' = MainFromNames(NamesEnding(bundle, ".tex"),
                                         NamesEnding(bundle, ".bbl"))
            /\ pc' = "read"
            /\ UNCHANGED result
    /\ UNCHANGED <<stack, download, bundle, idx, file_contents>>
    /\ UNCHANGED <<normVars, regionVars, memoVars, cacheVars>>

\* one iteration of the loop of lines 184-199; extractfile gives None for a member
\* that is no regular file, and f.read() then raises
ReadMember ==
    /\ pc = "read"
    /\ idx <= Len(tex_files)
    /\ LET t == tex_files[idx]
           m == Member(bundle, t)
           content == Normalize(m.content)
       IN  IF m.kind # "file"
           THEN /\ Leave(Raise("AttributeError"))
                /\ UNCHANGED <<main_tex, idx, file_contents>>
           ELSE /\ main_tex' = IF main_tex = NoName /\ Has(content, "bd")
                               THEN t ELSE main_tex
                /\ file_contents' = Put(file_contents, t, content)
                /\ idx' = idx + 1
                /\ UNCHANGED <<pc, result>>
    /\ UNCHANGED <<stack, download, bundle, tex_files, bbl_file>>
    /\ UNCHANGED <<normVars, regionVars, memoVars, cacheVars>>

\* lines 201-221
Finish ==
    /\ pc = "read"
    /\ idx > Len(tex_files)
    /\ IF main_tex # NoName
       THEN LET main_source == file_contents[main_tex]
            IN  Leave(ReturnMap(file_contents,
                                Inline(main_source, IncludeFiles(main_source),
                                       file_contents)))
       ELSE Leave(ReturnNone)
    /\ UNCHANGED <<stack, download, bundle, tex_files, bbl_file, main_tex, idx,
                   file_contents>>
    /\ UNCHANGED <<normVars, regionVars, memoVars, cacheVars>>

\* ExitStack.__exit__ of line 133, on a return and on an exception alike
LeaveWith ==
    /\ pc = "exit"
    /\ stack' = ExitStackClose(stack)
    /\ pc' = "done"
    /\ UNCHANGED <<download, bundle, tex_files, bbl_file, main_tex, idx,
                   file_contents, result>>
    /\ UNCHANGED <<normVars, regionVars, memoVars, cacheVars>>

NextTex ==
    \/ EnterTmpDir
    \/ DownloadSource
    \/ OpenTar
    \/ ChooseByName
    \/ ReadMember
    \/ Finish
    \/ LeaveWith

-----------------------------------------------------------------------------
(* functools.cached_property on one ArxivPaper instance: tex (line 131),     *)
(* tldr (line 223), affiliations (line 332), code_url (line 107)             *)

Props == {"tex", "tldr", "affiliations", "code_url"}

\* no entry in the instance's __dict__; None is a value like any other
Absent == "absent"

\* what a body of tex can end with: the raise of line 148, the exception of
\* line 186, the returns of None, the return of a mapping (line 215)
TexOutcomes == {"HTTPError", "AttributeError", "None", "map1", "map2"}

\* llm.generate of lines 321 and 360: a reply, or an exception nothing catches
LlmOutcomes == {"LLMError", "reply1", "reply2"}

\* the two lookups of lines 115-127 together: no repository, or its URL
LookupOutcomes == {"None", "url"}

IsRaise(v) == v \in {"HTTPError", "AttributeError", "LLMError"}

TheId == "2401.00001"

Cached(st, p) == st.memo[p] # Absent

\* the access ends with v, a value returned or an exception raised
Observed(st, p, v) ==
    [st EXCEPT !.seen[p] = v, !.firstSeen[p] = IF @ = "" THEN v ELSE @]

\* the underlying computation of p (download, model call, lookup) is started
Ran(st, p) == [st EXCEPT !.runs[p] = @ + 1]

\* a faulty variant: a returned None is not stored
StoreUnlessNone(st, p, v) ==
    [st EXCEPT !.memo[p] = IF v = "None" THEN @ ELSE v,
               !.returns[p] = @ + 1, !.ranAtStore[p] = st.runs[p]]

\* cached_property.__get__ after the function returned v: stored whatever v is
Store(st, p, v) ==
    [st EXCEPT !.memo[p] = v, !.returns[p] = @ + 1, !.ranAtStore[p] = st.runs[p]]

\* cached_property.__get__ when the function ended with v: an exception leaves
\* the instance as it was
Complete(st, p, v) == Observed(IF IsRaise(v) THEN st ELSE Store(st, p, v), p, v)

\* self.tex, where o is what the body of tex ends with if it runs
GetTex(st, o) ==
    IF Cached(st, "tex") THEN Observed(st, "tex", st.memo["tex"])
    ELSE Complete(Ran(st, "tex"), "tex", o)

\* self.tldr, lines 223-330
GetTldr(st, oTex, oLlm) ==
    IF Cached(st, "tldr") THEN Observed(st, "tldr", st.memo["tldr"])
    ELSE LET st1 == GetTex(st, oTex)
         IN  IF IsRaise(st1.seen["tex"])
             THEN Complete(st1, "tldr", st1.seen["tex"])
             ELSE Complete(Ran(st1, "tldr"), "tldr", oLlm)

\* self.affiliations, lines 332-378; region: one of the patterns of line 345
\* matches; parsed: the reply holds a list literal
GetAffiliations(st, oTex, region, oLlm, parsed) ==
    IF Cached(st, "affiliations")
    THEN Observed(st, "affiliations", st.memo["affiliations"])
    ELSE LET st1 == GetTex(st, oTex)
             t == st1.seen["tex"]
         IN  IF IsRaise(t) THEN Complete(st1, "affiliations", t)
             ELSE IF t = "None" \/ ~region THEN Complete(st1, "affiliations", "None")
             ELSE IF IsRaise(oLlm)
                  THEN Complete(Ran(st1, "affiliations"), "affiliations", oLlm)
                  ELSE Complete(Ran(st1, "affiliations"), "affiliations",
                                IF parsed THEN "list" ELSE "None")

\* self.code_url, lines 107-128, with the class-level cache c
GetCodeUrl(st, c, o) ==
    IF Cached(st, "code_url") THEN Observed(st, "code_url", st.memo["code_url"])
    ELSE IF TheId \in DOMAIN c THEN Complete(st, "code_url", c[TheId])
    ELSE Complete(Ran(st, "code_url"), "code_url", o)

\* lines 117, 123, 127 as self.code_url leaves the class-level cache
CacheAfterCodeUrl(st, c, o) ==
    IF Cached(st, "code_url") \/ TheId \in DOMAIN c THEN c ELSE Put(c, TheId, o)

AccessTex ==
    /\ accesses < MaxAccesses
    /\ accesses' = accesses + 1
    /\ \E o \in TexOutcomes : inst' = GetTex(inst, o)
    /\ UNCHANGED <<cache, tpc, tid, tval, first, texVars, normVars, regionVars>>

AccessTldr ==
    /\ accesses < MaxAccesses
    /\ accesses' = accesses + 1
    /\ \E oTex \in TexOutcomes, oLlm \in LlmOutcomes : inst' = GetTldr(inst, oTex, oLlm)
    /\ UNCHANGED <<cache, tpc, tid, tval, first, texVars, normVars, regionVars>>

AccessAffiliations ==
    /\ accesses < MaxAccesses
    /\ accesses' = accesses + 1
    /\ \E oTex \in TexOutcomes, oLlm \in LlmOutcomes, region \in BOOLEAN, parsed \in BOOLEAN :
        inst' = GetAffiliations(inst, oTex, region, oLlm, parsed)
    /\ UNCHANGED <<cache, tpc, tid, tval, first, texVars, normVars, regionVars>>

AccessCodeUrl ==
    /\ accesses < MaxAccesses
    /\ accesses' = accesses + 1
    /\ \E o \in LookupOutcomes :
        /\ inst' = GetCodeUrl(inst, cache, o)
        /\ cache' = CacheAfterCodeUrl(inst, cache, o)
    /\ UNCHANGED <<tpc, tid, tval, first, texVars, normVars, regionVars>>

NextMemo ==
    \/ AccessTex
    \/ AccessTldr
    \/ AccessAffiliations
    \/ AccessCodeUrl

-----------------------------------------------------------------------------
(* _CODE_URL_CACHE under threads, lines 104-128: each thread is one          *)
(* ArxivPaper instance computing code_url; a thread can be suspended at      *)
(* each network call of _get_json                                            *)

Threads == 1..NThreads

Ids == {"2401.00001", "2401.00002"}

\* cache[self.arxiv_id] = v; first keeps the first value stored for each key
WriteCache(t, v) ==
    /\ cache' = Put(cache, tid[t], v)
    /\ first' = IF tid[t] \in DOMAIN first THEN first ELSE Put(first, tid[t], v)

\* lines 109-112
CheckCache(t) ==
    /\ tpc[t] = "check"
    /\ IF tid[t] \in DOMAIN cache
       THEN /\ tval' = [tval EXCEPT ![t] = cache[tid[t]]]
            /\ tpc' = [tpc EXCEPT ![t] = "done"]
       ELSE /\ tpc' = [tpc EXCEPT ![t] = "papers"]
            /\ UNCHANGED tval
    /\ UNCHANGED <<cache, tid, first, texVars, normVars, regionVars, memoVars>>

\* lines 114-120: the first _get_json returns; found: it lists a paper
LookupPaper(t) ==
    /\ tpc[t] = "papers"
    /\ \E found \in BOOLEAN :
        IF found
        THEN /\ tpc' = [tpc EXCEPT ![t] = "repos"]
             /\ UNCHANGED <<cache, first, tval>>
        ELSE /\ WriteCache(t, "None")
             /\ tval' = [tval EXCEPT ![t] = "None"]
             /\ tpc' = [tpc EXCEPT ![t] = "done"]
    /\ UNCHANGED <<tid, texVars, normVars, regionVars, memoVars>>

\* lines 121-128: the second _get_json returns
LookupRepositories(t) ==
    /\ tpc[t] = "repos"
    /\ \E o \in LookupOutcomes :
        /\ WriteCache(t, o)
        /\ tval' = [tval EXCEPT ![t] = o]
        /\ tpc' = [tpc EXCEPT ![t] = "done"]
    /\ UNCHANGED <<tid, texVars, normVars, regionVars, memoVars>>

NextCache ==
    \/ \E t \in Threads : CheckCache(t)
    \/ \E t \in Threads : LookupPaper(t)
    \/ \E t \in Threads : LookupRepositories(t)

-----------------------------------------------------------------------------
(* Specifications *)

NoMap == [x \in {} |-> ""]

FreshInstance ==
    [memo |-> [p \in Props |-> Absent], runs |-> [p \in Props |-> 0],
     returns |-> [p \in Props |-> 0], ranAtStore |-> [p \in Props |-> 0],
     seen |-> [p \in Props |-> ""], firstSeen |-> [p \in Props |-> ""]]

\* the normaliser given every text up to MaxLen lexemes
InitNorm ==
    /\ raw \in TextsUpTo(NormAlphabet, MaxLen)
    /\ once = <<>> /\ twice = <<>> /\ normDone = FALSE
    /\ pc = "idle" /\ stack = {} /\ download = "" /\ bundle = <<>>
    /\ tex_files = <<>> /\ bbl_file = <<>> /\ main_tex = NoName /\ idx = 1
    /\ file_contents = NoMap /\ result = Pending
    /\ flat = <<>> /\ introduction = <<>> /\ conclusion = <<>> /\ tldrDone = FALSE
    /\ inst = FreshInstance /\ accesses = 0
    /\ cache = NoMap /\ tpc = <<>> /\ tid = <<>> /\ tval = <<>> /\ first = NoMap

SpecNorm == InitNorm /\ [][NextNorm]_vars

\* the region extraction given every flattened document up to MaxDoc lexemes
InitRegion ==
    /\ flat \in TextsUpTo(RegionAlphabet, MaxDoc)
    /\ introduction = <<>> /\ conclusion = <<>> /\ tldrDone = FALSE
    /\ raw = <<>> /\ once = <<>> /\ twice = <<>> /\ normDone = FALSE
    /\ pc = "idle" /\ stack = {} /\ download = "" /\ bundle = <<>>
    /\ tex_files = <<>> /\ bbl_file = <<>> /\ main_tex = NoName /\ idx = 1
    /\ file_contents = NoMap /\ result = Pending
    /\ inst = FreshInstance /\ accesses = 0
    /\ cache = NoMap /\ tpc = <<>> /\ tid = <<>> /\ tval = <<>> /\ first = NoMap

SpecRegion == InitRegion /\ [][NextRegion]_vars

\* one computation of tex, from the entry of its with block
InitTex ==
    /\ pc = "enter" /\ stack = {} /\ download = "" /\ bundle = <<>>
    /\ tex_files = <<>> /\ bbl_file = <<>> /\ main_tex = NoName /\ idx = 1
    /\ file_contents = NoMap /\ result = Pending
    /\ raw = <<>> /\ once = <<>> /\ twice = <<>> /\ normDone = FALSE
    /\ flat = <<>> /\ introduction = <<>> /\ conclusion = <<>> /\ tldrDone = FALSE
    /\ inst = FreshInstance /\ accesses = 0
    /\ cache = NoMap /\ tpc = <<>> /\ tid = <<>> /\ tval = <<>> /\ first = NoMap

SpecTex == InitTex /\ [][NextTex]_vars

\* one new instance; the class-level cache may hold its identifier already
InitMemo ==
    /\ inst = FreshInstance /\ accesses = 0
    /\ cache \in {NoMap} \cup {[i \in {TheId} |-> v] : v \in LookupOutcomes}
    /\ tpc = <<>> /\ tid = <<>> /\ tval = <<>> /\ first = NoMap
    /\ pc = "idle" /\ stack = {} /\ download = "" /\ bundle = <<>>
    /\ tex_files = <<>> /\ bbl_file = <<>> /\ main_tex = NoName /\ idx = 1
    /\ file_contents = NoMap /\ result = Pending
    /\ raw = <<>> /\ once = <<>> /\ twice = <<>> /\ normDone = FALSE
    /\ flat = <<>> /\ introduction = <<>> /\ conclusion = <<>> /\ tldrDone = FALSE

SpecMemo == InitMemo /\ [][NextMemo]_vars

\* NThreads instances, each about to compute code_url, and an empty cache
InitCache ==
    /\ cache = NoMap /\ first = NoMap
    /\ tpc = [t \in Threads |-> "check"]
    /\ tid \in [Threads -> Ids]
    /\ tval = [t \in Threads |-> ""]
    /\ inst = FreshInstance /\ accesses = 0
    /\ pc = "idle" /\ stack = {} /\ download = "" /\ bundle = <<>>
    /\ tex_files = <<>> /\ bbl_file = <<>> /\ main_tex = NoName /\ idx = 1
    /\ file_contents = NoMap /\ result = Pending
    /\ raw = <<>> /\ once = <<>> /\ twice = <<>> /\ normDone = FALSE
    /\ flat = <<>> /\ introduction = <<>> /\ conclusion = <<>> /\ tldrDone = FALSE

SpecCache == InitCache /\ [][NextCache]_vars

-----------------------------------------------------------------------------
(* Properties *)

\* the archive was opened and its members listed
Opened == download = "ok" /\ Len(bundle) > 0

\* a .bbl name with its .bbl suffix replaced by .tex
SuffixCandidate(n) == Append(SubSeq(n, 1, Len(n) - 1), ".tex")

\* exactly one .bbl member, and a .tex member named after it
OneMatchingBbl(b) ==
    /\ Len(NamesEnding(b, ".bbl")) = 1
    /\ InSeq(SuffixCandidate(NamesEnding(b, ".bbl")[1]), NamesEnding(b, ".tex"))

\* C1: in a bundle with exactly one .bbl member whose name, with the .bbl suffix
\* replaced by .tex, names a .tex member, tex returns a mapping whose main
\* document is that member and whose "all" is built from its content.  (Stated
\* for the computations that return; those ended by an exception are C7.)
C1_BblSelectsMatchingTex ==
    (pc = "done" /\ Opened /\ OneMatchingBbl(bundle) /\ result.kind # "raise")
        => /\ result.kind = "map"
           /\ main_tex = SuffixCandidate(NamesEnding(bundle, ".bbl")[1])
           /\ result.all = Inline(file_contents[main_tex],
                                  IncludeFiles(file_contents[main_tex]),
                                  file_contents)

\* the cases in which the file-name rules leave the choice to the content
NameRulesDefer(b) ==
    LET tex == NamesEnding(b, ".tex")
        bbl == NamesEnding(b, ".bbl")
    IN  /\ Len(tex) > 0
        /\ \/ Len(bbl) = 0 /\ Len(tex) > 1
           \/ Len(bbl) = 1 /\ ~InSeq(SuffixCandidate(bbl[1]), tex)
           \/ Len(bbl) >= 2

\* the .tex members whose normalised content holds \begin{document}
HasDocument(b, n) ==
    /\ Member(b, n).kind = "file"
    /\ Has(Normalize(Member(b, n).content), "bd")

\* the first of them in enumeration order, NoName when there is none
FirstWithDocument(b) ==
    LET hits == SelectSeq(NamesEnding(b, ".tex"), LAMBDA n : HasDocument(b, n))
    IN  IF hits = <<>> THEN NoName ELSE hits[1]

\* C2: when the file-name rules defer, tex ends with the first .tex member in
\* enumeration order whose normalised content holds \begin{document} as the main
\* document, and with an absent result when no .tex member holds it.
C2_ContentFallback ==
    (pc = "done" /\ Opened /\ NameRulesDefer(bundle))
        => IF FirstWithDocument(bundle) # NoName
           THEN result.kind = "map" /\ main_tex = FirstWithDocument(bundle)
           ELSE result.kind = "none"

IsDirective(e) == e.t \in {"input", "include"}

\* every directive of either spelling replaced, in one pass, by the normalised
\* content of the file it names
ClaimedInline(src, fc) ==
    Flatten([i \in 1..Len(src) |->
                IF IsDirective(src[i]) THEN Get(fc, FileName(src[i].a))
                ELSE <<src[i]>>])

\* C3: "all" is the main document with every \input{f} and \include{f} replaced by
\* the normalised content of f (the empty text when f is not in the bundle), all
\* other text unchanged and in order.
C3_DirectivesInlined ==
    (pc = "done" /\ result.kind = "map")
        => result.all = ClaimedInline(file_contents[main_tex], file_contents)

IsInfix(a, s) ==
    \E k \in 0..(Len(s) - Len(a)) : SubSeq(s, k + 1, k + Len(a)) = a

\* C4: when the main document holds \input{A} and the normalised content of A
\* holds a further directive, the inlined copy of A is in "all" with that inner
\* directive still in it as literal text, also when the main document includes
\* the inner file directly.  (Stated for the \input spelling: an \include{A} is
\* not inlined at all, which is C3.)
C4_SinglePass ==
    (pc = "done" /\ result.kind = "map")
        => \A i \in 1..Len(file_contents[main_tex]) :
            LET d == file_contents[main_tex][i]
                A == FileName(d.a)
            IN  ( /\ d.t = "input"
                  /\ A \in DOMAIN file_contents
                  /\ \E j \in 1..Len(file_contents[A]) :
                        IsDirective(file_contents[A][j]) )
                => IsInfix(file_contents[A], result.all)

\* the steps of the normaliser that can bring lexemes together, the removal of
\* blocks (lines 189-190) and of line-break markers (line 193), remove nothing
NothingRemoved(s) ==
    /\ Uncommented(s) = StripLineComments(s)
    /\ ~Has(Uncommented(s), "bs2")

\* C5 as stated: the normaliser applied to its own output returns it unchanged.
C5_Idempotent == normDone => twice = once

\* C5, amended: the normaliser is idempotent on every text from which it removes
\* no \begin{comment}..\end{comment} block, no \iffalse..\fi block and no \\
\* marker.
C5_IdempotentWhenNothingRemoved ==
    (normDone /\ NothingRemoved(raw)) => twice = once

\* a text of that kind that the normaliser does change
C5_Witness ==
    /\ normDone /\ NothingRemoved(raw)
    /\ Has(raw, "pct") /\ once # raw /\ Len(once) > 1

\* C6: the region of a heading starts at the heading and ends immediately before
\* the first following terminator; it is empty when the heading is absent.
C6_RegionExcludesTerminator ==
    tldrDone => /\ introduction = ClaimedRegion(Cleaned(flat), "secI")
                /\ conclusion = ClaimedRegion(Cleaned(flat), "secC")

\* C7: an access to tex raises exactly when the download failed with an HTTP error
\* other than 404; every other failure ends with an absent result.
C7_OnlyHttpErrorPropagates ==
    pc = "done" => (result.kind = "raise" <=> download = "httpOther")

\* C8 as stated: the underlying computation of each memoised property runs at
\* most once, and every access observes what the first access observed.
C8_ComputedOnce ==
    \A p \in Props :
        /\ inst.runs[p] <= 1
        /\ inst.firstSeen[p] # "" => inst.seen[p] = inst.firstSeen[p]

\* C8, amended: the underlying computation of each memoised property returns at
\* most once; from that return on it is not run again and every access observes
\* the returned value.  An access that ends in an exception stores nothing, and
\* the next access runs the computation again.
C8_ReturnsOnce ==
    \A p \in Props :
        /\ inst.returns[p] <= 1
        /\ Cached(inst, p) => /\ inst.returns[p] = 1
                              /\ inst.runs[p] = inst.ranAtStore[p]
                              /\ inst.seen[p] = inst.memo[p]
        /\ (inst.returns[p] = 1) => Cached(inst, p)
        /\ (~Cached(inst, p) /\ inst.seen[p] # "") => IsRaise(inst.seen[p])

\* tex raised on its first access, ran again, returned, and was read once more
C8_Witness ==
    /\ inst.firstSeen["tex"] = "HTTPError"
    /\ Cached(inst, "tex") /\ inst.memo["tex"] = "None"
    /\ inst.runs["tex"] = 2
    /\ accesses >= 3

\* C9: an entry of _CODE_URL_CACHE is never replaced by another value: it holds
\* the first value stored for its identifier.
C9_FirstWriterWins ==
    \A i \in DOMAIN cache : i \in DOMAIN first /\ cache[i] = first[i]

\* C10: the temporary directory is held from before the download until tex ends,
\* the archive from its opening on, and at the end of tex, whichever way it
\* ends, neither is held.
C10_TmpDirReleased ==
    /\ pc \in {"download", "open", "names", "read", "exit"} => "tmpdir" \in stack
    /\ pc \in {"names", "read"} => "tar" \in stack
    /\ pc = "done" => stack = {}

\* tex ended by an exception raised while the members were read
C10_Witness ==
    /\ pc = "done" /\ stack = {}
    /\ result.kind = "raise" /\ result.exc = "AttributeError"

====
